---- MODULE Spec2Model ----
(***************************************************************************)
(* ansi-graphics: the static mini-language parser (macros/src/parse.rs),   *)
(* the SGR code tables (src/discrete.rs) and the escape writers            *)
(* (src/writer.rs).                                                        *)
(*                                                                         *)
(* Text is a sequence of characters; a character is a one-letter string,   *)
(* except for the control characters, which are named (ESC, LF, ...).      *)
(* Every character of the model is ASCII, so a byte index of the source is *)
(* a character index here; indices are 0-based as in the source and        *)
(* Slice(s, a, b) is &s[a..b].                                             *)
(***************************************************************************)
EXTENDS Integers, Sequences, FiniteSets, TLC

VARIABLES
    writer,        \* FmtWriter / IoWriter: [kind, first_write, out]
    calls,         \* the writer's constructor and the calls made on it so far, in order
    s,             \* parse_string: the input text
    chars,         \* parse_string: characters the CharIndices iterator has consumed
    next,          \* parse_string: the loop's current item, None or Some(<<i, ch>>)
    buf,           \* parse_string: the output buffer
    pc,            \* parse_string: "main", "param" (directive loop of parse_param), "done"
    result,        \* parse_string: "running", "Some", "None" or "panic"
    pp             \* parse_param: its locals [ch, start, close_found, after_output, output]

vars == <<writer, calls, s, chars, next, buf, pc, result, pp>>

----------------------------------------------------------------------------
(* Characters and text *)

ESC == "ESC"
LF  == "LF"
CR  == "CR"
TAB == "TAB"
NUL == "NUL"
BSL == "BSL"

None == <<>>
Some(x) == <<x>>
IsSome(o) == Len(o) = 1
Unwrap(o) == o[1]

Slice(t, a, b) == SubSeq(t, a + 1, b)

RECURSIVE Concat(_)
Concat(ts) == IF ts = <<>> THEN <<>> ELSE Head(ts) \o Concat(Tail(ts))

DigitChars == <<"0", "1", "2", "3", "4", "5", "6", "7", "8", "9">>

Byte == 0 .. 255

----------------------------------------------------------------------------
(* src/writer.rs *)

ESCAPE == <<ESC, "[">>
END == "m"

\* u8::to_string: the decimal digits of the value, most significant first
RECURSIVE to_string(_)
to_string(n) ==
    IF n < 10 THEN <<DigitChars[n + 1]>>
    ELSE to_string(n \div 10) \o <<DigitChars[(n % 10) + 1]>>

FmtWriter_new == [kind |-> "fmt", first_write |-> TRUE, out |-> <<>>]

IoWriter_new(first_write) == [kind |-> "io", first_write |-> first_write, out |-> <<>>]

FmtWriter_escape(w) == [w EXCEPT !.first_write = TRUE, !.out = @ \o ESCAPE]

IoWriter_escape(w) == [w EXCEPT !.out = @ \o ESCAPE]

FmtWriter_end(w) == [w EXCEPT !.out = Append(@, END)]

IoWriter_end(w) == [w EXCEPT !.out = Append(@, END)]

FmtWriter_write_code(w, code) ==
    IF w.first_write
    THEN [w EXCEPT !.first_write = FALSE, !.out = @ \o to_string(code)]
    ELSE [w EXCEPT !.out = @ \o <<";">> \o to_string(code)]

\* IoWriter::write_code with the flag left set
IoWriter_write_code_flag_kept(w, code) == [w EXCEPT !.out = @ \o to_string(code)]

IoWriter_write_code(w, code) ==
    IF w.first_write
    THEN [w EXCEPT !.first_write = FALSE, !.out = @ \o to_string(code)]
    ELSE [w EXCEPT !.out = @ \o <<";">> \o to_string(code)]

\* trait dispatch of AnsiWriter
escape(w) == IF w.kind = "fmt" THEN FmtWriter_escape(w) ELSE IoWriter_escape(w)

end(w) == IF w.kind = "fmt" THEN FmtWriter_end(w) ELSE IoWriter_end(w)

write_code(w, code) ==
    IF w.kind = "fmt" THEN FmtWriter_write_code(w, code) ELSE IoWriter_write_code(w, code)

RECURSIVE write_all(_, _)
write_all(w, codes) ==
    IF codes = <<>> THEN w
    ELSE write_all(write_code(w, Head(codes)), Tail(codes))

----------------------------------------------------------------------------
(* src/discrete.rs *)

StyleNames ==
    {"Reset", "Bold", "Dim", "Italic", "Underline", "Blinking", "Inverse", "Hidden",
     "Strikethrough", "NotBold", "NotDim", "NotItalic", "NotUnderline", "NotBlinking",
     "NotInverse", "NotHidden", "NotStrikethrough"}

NamedColors ==
    {"BlackFg", "RedFg", "GreenFg", "YellowFg", "BlueFg", "MagentaFg", "CyanFg",
     "WhiteFg", "DefaultFg", "BlackBg", "RedBg", "GreenBg", "YellowBg", "BlueBg",
     "MagentaBg", "CyanBg", "WhiteBg", "DefaultBg"}

\* a Style or Color value: the variant and its (up to three) byte parameters
Value(t, a, b, c) == [t |-> t, a |-> a, b |-> b, c |-> c]

Style(t) == Value(t, 0, 0, 0)

Color(t) == Value(t, 0, 0, 0)

ByteFg(n) == Value("ByteFg", n, 0, 0)

ByteBg(n) == Value("ByteBg", n, 0, 0)

RgbFg(r, g, b) == Value("RgbFg", r, g, b)

RgbBg(r, g, b) == Value("RgbBg", r, g, b)

\* impl DiscreteSGR for Style: the code handed to builder.write_code
Style_write(v) ==
    CASE v.t = "Reset" -> <<0>>
      [] v.t = "Bold" -> <<1>>
      [] v.t = "Dim" -> <<2>>
      [] v.t = "Italic" -> <<3>>
      [] v.t = "Underline" -> <<4>>
      [] v.t = "Blinking" -> <<5>>
      [] v.t = "Inverse" -> <<7>>
      [] v.t = "Hidden" -> <<8>>
      [] v.t = "Strikethrough" -> <<9>>
      [] v.t \in {"NotBold", "NotDim"} -> <<22>>
      [] v.t = "NotItalic" -> <<23>>
      [] v.t = "NotUnderline" -> <<24>>
      [] v.t = "NotBlinking" -> <<25>>
      [] v.t = "NotInverse" -> <<27>>
      [] v.t = "NotHidden" -> <<28>>
      [] v.t = "NotStrikethrough" -> <<29>>

\* impl DiscreteSGR for Color: the codes handed to builder.write_code / write_codes
Color_write(v) ==
    CASE v.t = "BlackFg" -> <<30>>
      [] v.t = "RedFg" -> <<31>>
      [] v.t = "GreenFg" -> <<32>>
      [] v.t = "YellowFg" -> <<33>>
      [] v.t = "BlueFg" -> <<34>>
      [] v.t = "MagentaFg" -> <<35>>
      [] v.t = "CyanFg" -> <<36>>
      [] v.t = "WhiteFg" -> <<37>>
      [] v.t = "ByteFg" -> <<38, 2, v.a>>
      [] v.t = "RgbFg" -> <<38, 5, v.a, v.b, v.c>>
      [] v.t = "DefaultFg" -> <<39>>
      [] v.t = "BlackBg" -> <<40>>
      [] v.t = "RedBg" -> <<41>>
      [] v.t = "GreenBg" -> <<42>>
      [] v.t = "YellowBg" -> <<43>>
      [] v.t = "BlueBg" -> <<44>>
      [] v.t = "MagentaBg" -> <<45>>
      [] v.t = "CyanBg" -> <<46>>
      [] v.t = "WhiteBg" -> <<47>>
      [] v.t = "ByteBg" -> <<48, 2, v.a>>
      [] v.t = "RgbBg" -> <<48, 5, v.a, v.b, v.c>>
      [] v.t = "DefaultBg" -> <<49>>

DiscreteSGR_write(v) == IF v.t \in StyleNames THEN Style_write(v) ELSE Color_write(v)

\* SGRBuilder::write_code / write_codes: each code goes to the writer, in order
SGRBuilder_write_codes(w, codes) == write_all(w, codes)

----------------------------------------------------------------------------
(* macros/src/parse.rs: the keywords, as text *)

K_BlackBg == <<"B", "l", "a", "c", "k", "B", "g">>

K_BlackFg == <<"B", "l", "a", "c", "k", "F", "g">>

K_Blinking == <<"B", "l", "i", "n", "k", "i", "n", "g">>

K_BlueBg == <<"B", "l", "u", "e", "B", "g">>

K_BlueFg == <<"B", "l", "u", "e", "F", "g">>

K_Bold == <<"B", "o", "l", "d">>

K_CyanBg == <<"C", "y", "a", "n", "B", "g">>

K_CyanFg == <<"C", "y", "a", "n", "F", "g">>

K_DefaultBg == <<"D", "e", "f", "a", "u", "l", "t", "B", "g">>

K_DefaultFg == <<"D", "e", "f", "a", "u", "l", "t", "F", "g">>

K_Dim == <<"D", "i", "m">>

K_GreenBg == <<"G", "r", "e", "e", "n", "B", "g">>

K_GreenFg == <<"G", "r", "e", "e", "n", "F", "g">>

K_Hidden == <<"H", "i", "d", "d", "e", "n">>

K_Inverse == <<"I", "n", "v", "e", "r", "s", "e">>

K_Italic == <<"I", "t", "a", "l", "i", "c">>

K_MagentaBg == <<"M", "a", "g", "e", "n", "t", "a", "B", "g">>

K_MagentaFg == <<"M", "a", "g", "e", "n", "t", "a", "F", "g">>

K_Nope == <<"N", "o", "p", "e">>

K_RedBg == <<"R", "e", "d", "B", "g">>

K_RedFg == <<"R", "e", "d", "F", "g">>

K_Reset == <<"R", "e", "s", "e", "t">>

K_Strikethrough == <<"S", "t", "r", "i", "k", "e", "t", "h", "r", "o", "u", "g", "h">>

K_Underline == <<"U", "n", "d", "e", "r", "l", "i", "n", "e">>

K_WhiteBg == <<"W", "h", "i", "t", "e", "B", "g">>

K_WhiteFg == <<"W", "h", "i", "t", "e", "F", "g">>

K_YellowBg == <<"Y", "e", "l", "l", "o", "w", "B", "g">>

K_YellowFg == <<"Y", "e", "l", "l", "o", "w", "F", "g">>

K_name == <<"n", "a", "m", "e">>

----------------------------------------------------------------------------
(* macros/src/parse.rs: code tables and number parsing *)

parse_add_style(t) ==
    CASE t = K_Reset -> Some(0)
      [] t = K_Bold -> Some(1)
      [] t = K_Dim -> Some(2)
      [] t = K_Italic -> Some(3)
      [] t = K_Underline -> Some(4)
      [] t = K_Blinking -> Some(5)
      [] t = K_Inverse -> Some(7)
      [] t = K_Hidden -> Some(8)
      [] t = K_Strikethrough -> Some(9)
      [] OTHER -> None

parse_sub_style(t) ==
    CASE t = K_Bold \/ t = K_Dim -> Some(22)
      [] t = K_Italic -> Some(23)
      [] t = K_Underline -> Some(24)
      [] t = K_Blinking -> Some(25)
      [] t = K_Inverse -> Some(27)
      [] t = K_Hidden -> Some(28)
      [] t = K_Strikethrough -> Some(29)
      [] OTHER -> None

parse_color_simple(t) ==
    CASE t = K_BlackFg -> Some(30)
      [] t = K_RedFg -> Some(31)
      [] t = K_GreenFg -> Some(32)
      [] t = K_YellowFg -> Some(33)
      [] t = K_BlueFg -> Some(34)
      [] t = K_MagentaFg -> Some(35)
      [] t = K_CyanFg -> Some(36)
      [] t = K_WhiteFg -> Some(37)
      [] t = K_DefaultFg -> Some(39)
      [] t = K_BlackBg -> Some(40)
      [] t = K_RedBg -> Some(41)
      [] t = K_GreenBg -> Some(42)
      [] t = K_YellowBg -> Some(43)
      [] t = K_BlueBg -> Some(44)
      [] t = K_MagentaBg -> Some(45)
      [] t = K_CyanBg -> Some(46)
      [] t = K_WhiteBg -> Some(47)
      [] t = K_DefaultBg -> Some(49)
      [] OTHER -> None
\* the digit renderer pushing the tens digit whatever the value
append_to_padded(n, t) ==
    LET h  == IF n >= 100 THEN <<DigitChars[(n \div 100) + 1]>> ELSE <<>>
        n1 == n % 100
    IN  t \o h \o <<DigitChars[(n1 \div 10) + 1], DigitChars[(n1 % 10) + 1]>>

\* impl AppendToString for u8: the digits pushed for n, by manual extraction
append_to(n, t) ==
    LET h  == IF n >= 10 /\ n >= 100 THEN <<DigitChars[(n \div 100) + 1]>> ELSE <<>>
        n1 == IF n >= 10 /\ n >= 100 THEN n % 100 ELSE n
        d  == IF n >= 10 THEN <<DigitChars[(n1 \div 10) + 1]>> ELSE <<>>
        n2 == IF n >= 10 THEN n1 % 10 ELSE n1
    IN  t \o h \o d \o <<DigitChars[n2 + 1]>>

HexLower == <<"0", "1", "2", "3", "4", "5", "6", "7", "8", "9", "a", "b", "c", "d", "e", "f">>

HexUpper == <<"0", "1", "2", "3", "4", "5", "6", "7", "8", "9", "A", "B", "C", "D", "E", "F">>

IsDigit(c, radix) ==
    \E d \in 1 .. radix : HexLower[d] = c \/ HexUpper[d] = c

DigitVal(c) == (CHOOSE d \in 1 .. 16 : HexLower[d] = c \/ HexUpper[d] = c) - 1

\* the value of the digits; once above max it is only known to be above max
RECURSIVE RadixValue(_, _, _, _)
RadixValue(t, radix, max, acc) ==
    IF t = <<>> \/ acc > max THEN acc
    ELSE RadixValue(Tail(t), radix, max, acc * radix + DigitVal(Head(t)))

\* from_str_radix wrapping around at max instead of failing
from_str_radix_wrapping(t, radix, max) ==
    LET digits == IF t # <<>> /\ Head(t) = "+" THEN Tail(t) ELSE t
    IN  IF digits = <<>> \/ \E k \in 1 .. Len(digits) : ~IsDigit(digits[k], radix)
        THEN None
        ELSE Some(RadixValue(digits, radix, max, 0) % (max + 1))

\* {integer}::from_str_radix for an unsigned type of maximum max: an optional '+',
\* then one or more digits of the radix, the value no more than max
from_str_radix(t, radix, max) ==
    LET digits == IF t # <<>> /\ Head(t) = "+" THEN Tail(t) ELSE t
    IN  IF digits = <<>> \/ \E k \in 1 .. Len(digits) : ~IsDigit(digits[k], radix)
        THEN None
        ELSE IF RadixValue(digits, radix, max, 0) > max THEN None
             ELSE Some(RadixValue(digits, radix, max, 0))

\* u8::from_str with the radix of the bracket notation
u8_from_str_radix16(t) == from_str_radix(t, 16, 255)

u8_from_str(t) == from_str_radix(t, 10, 255)

\* str::split(','): the pieces between the commas (one piece when there is none)
RECURSIVE split(_, _)
split(t, cur) ==
    IF t = <<>> THEN <<cur>>
    ELSE IF Head(t) = "," THEN <<cur>> \o split(Tail(t), <<>>)
         ELSE split(Tail(t), Append(cur, Head(t)))

\* parse_color: None, or Some(buf with the colour's codes appended)
parse_color(t, b) ==
    IF IsSome(parse_color_simple(t))
    THEN Some(append_to(Unwrap(parse_color_simple(t)), b))
    ELSE IF t = <<>> \/ t[1] \notin {"f", "b"} THEN None
    ELSE IF Len(t) < 3 THEN None
    ELSE
        LET b1    == b \o (IF t[1] = "f" THEN <<"3", "8", ";">> ELSE <<"4", "8", ";">>)
            left  == t[2]
            right == t[Len(t)]
            in    == Slice(t, 2, Len(t) - 1)
        IN  IF left = "(" /\ right = ")"
            THEN LET parts == split(in, <<>>)
                 IN  IF \E k \in 1 .. Len(parts) : ~IsSome(u8_from_str(parts[k]))
                     THEN None
                     ELSE IF Len(parts) = 1
                     THEN Some(append_to(Unwrap(u8_from_str(parts[1])), b1 \o <<"5", ";">>))
                     ELSE IF Len(parts) = 3
                     THEN Some(append_to(Unwrap(u8_from_str(parts[3])),
                               Append(append_to(Unwrap(u8_from_str(parts[2])),
                                   Append(append_to(Unwrap(u8_from_str(parts[1])),
                                       b1 \o <<"2", ";">>), ";")), ";")))
                     ELSE None
            ELSE IF left = "[" /\ right = "]"
            THEN IF Len(in) = 2
                 THEN IF IsSome(from_str_radix(in, 16, 255))
                      THEN Some(append_to(Unwrap(from_str_radix(in, 16, 255)),
                                          b1 \o <<"5", ";">>))
                      ELSE None
                 ELSE IF Len(in) = 6
                 THEN LET h1 == from_str_radix(Slice(in, 0, 2), 16, 255)
                          h2 == from_str_radix(Slice(in, 2, 4), 16, 255)
                          h3 == from_str_radix(Slice(in, 4, 6), 16, 255)
                      IN  IF IsSome(h1) /\ IsSome(h2) /\ IsSome(h3)
                          THEN Some(append_to(Unwrap(h3),
                                    Append(append_to(Unwrap(h2),
                                        Append(append_to(Unwrap(h1),
                                            b1 \o <<"2", ";">>), ";")), ";")))
                          ELSE None
                 ELSE None
            ELSE None

\* parse_sgr: None, or Some(buf with the segment's codes appended)
parse_sgr(ch, t, b) ==
    CASE ch = "+" ->
            IF IsSome(parse_add_style(t)) THEN Some(append_to(Unwrap(parse_add_style(t)), b))
            ELSE None
      [] ch = "-" ->
            IF IsSome(parse_sub_style(t)) THEN Some(append_to(Unwrap(parse_sub_style(t)), b))
            ELSE None
      [] ch = "#" -> parse_color(t, b)
      [] OTHER -> Some(b)

----------------------------------------------------------------------------
(* macros/src/parse.rs: parse_string and parse_param *)

Delimiters == {"+", "-", "#", "}", "&"}

Whitespace == {" ", LF, CR, TAB}

NoLocals ==
    [ch |-> "", start |-> 0, close_found |-> FALSE, after_output |-> FALSE, output |-> None]

\* the state of one parse_string call
Parse(c, n, b, p, r, l) ==
    [chars |-> c, next |-> n, buf |-> b, pc |-> p, result |-> r, pp |-> l]

\* CharIndices::next after pos characters were consumed
chars_next(t, pos) == IF pos < Len(t) THEN Some(<<pos, t[pos + 1]>>) ELSE None

chars_after(t, pos) == IF pos < Len(t) THEN pos + 1 ELSE pos

\* parse_string before its loop: the first character is read
parse_string_start(t) ==
    Parse(chars_after(t, 0), chars_next(t, 0), <<>>, "main", "running", NoLocals)

\* a return or a panic of parse_string
Finish(P, r) == [P EXCEPT !.pc = "done", !.result = r, !.pp = NoLocals]

\* the end of a pass with the current item left in place
Advance_repeat(t, P) == [P EXCEPT !.pc = "main", !.pp = NoLocals]

\* line 99: next = chars.next()
Advance(t, P) ==
    [P EXCEPT !.next = chars_next(t, P.chars), !.chars = chars_after(t, P.chars),
              !.pc = "main", !.pp = NoLocals]

\* find_delimiter: the first delimiter at or after the iterator's position; the
\* iterator is left after it (exhausted when there is none)
find_delimiter(t, pos, close_found, after_output) ==
    LET hits == {k \in pos + 1 .. Len(t) : t[k] \in Delimiters}
    IN  IF hits = {}
        THEN [found |-> None, chars |-> Len(t),
              close_found |-> close_found, after_output |-> after_output]
        ELSE LET k == CHOOSE k \in hits : \A j \in hits : k <= j
             IN  [found |-> Some(<<k - 1, t[k]>>), chars |-> k,
                  close_found |-> close_found \/ t[k] = "}",
                  after_output |-> after_output \/ t[k] = "&"]

\* the largest code point: u32::from_str_radix followed by char::from_u32 yields
\* no character for a value above it
CharMax == 1114111

\* char::from_u32 on the code points the model's text can hold
CharTable ==
    (10 :> LF) @@ (27 :> ESC) @@ (32 :> " ") @@ (43 :> "+") @@ (65 :> "A") @@
    (97 :> "a") @@ (123 :> "{") @@ (125 :> "}")

char_from_u32(v) ==
    IF v \in DOMAIN CharTable THEN Some(CharTable[v])
    ELSE IF v > CharMax \/ (v >= 55296 /\ v <= 57343) THEN None
    ELSE Some("OTHER")

\* parse_7bit: chars.nth(1), then the text s[end - 2 ..= end] read as hexadecimal
parse_7bit(t, pos) ==
    IF pos + 2 > Len(t) THEN [val |-> None, chars |-> Len(t)]
    ELSE LET end_i   == pos + 1
             start == end_i - 2
             v     == from_str_radix(Slice(t, start, end_i + 1), 16, CharMax)
         IN  [val |-> IF IsSome(v) THEN char_from_u32(Unwrap(v)) ELSE None,
              chars |-> pos + 2]

\* parse_24bit: chars.nth(1), then the text up to the next '}' read as hexadecimal
parse_24bit(t, pos) ==
    IF pos + 2 > Len(t) THEN [val |-> None, chars |-> Len(t)]
    ELSE LET start == pos + 1
             hits  == {k \in pos + 3 .. Len(t) : t[k] = "}"}
         IN  IF hits = {} THEN [val |-> None, chars |-> Len(t)]
             ELSE LET k == CHOOSE k \in hits : \A j \in hits : k <= j
                      v == from_str_radix(Slice(t, start, k - 1), 16, CharMax)
                  IN  [val |-> IF IsSome(v) THEN char_from_u32(Unwrap(v)) ELSE None,
                       chars |-> k]

Push(P, c) == [P EXCEPT !.buf = Append(@, c)]

\* the whitespace is skipped together with the character that ends it
whitespace_ignore_drop(t, Q) ==
    LET hits == {k \in Q.chars + 1 .. Len(t) : t[k] \notin Whitespace}
    IN  IF hits = {}
        THEN Advance(t, [Q EXCEPT !.chars = Len(t)])
        ELSE LET k == CHOOSE k \in hits : \A j \in hits : k <= j
             IN  Advance(t, [Q EXCEPT !.chars = k])

\* lines 73-81: after a backslash and a line feed the iterator is drained up to the
\* first character that is not whitespace, which becomes the loop's current item
\* (continue 'outer); at the end of the text line 99 reads None
whitespace_ignore(t, Q) ==
    LET hits == {k \in Q.chars + 1 .. Len(t) : t[k] \notin Whitespace}
    IN  IF hits = {}
        THEN Advance(t, [Q EXCEPT !.chars = Len(t)])
        ELSE LET k == CHOOSE k \in hits : \A j \in hits : k <= j
             IN  [Q EXCEPT !.chars = k, !.next = Some(<<k - 1, t[k]>>)]

\* the '\\' arm of the main loop
backslash_arm(t, P) ==
    IF P.chars >= Len(t) THEN Finish(P, "panic")
    ELSE
        LET e == t[P.chars + 1]
            Q == [P EXCEPT !.chars = @ + 1]
        IN  CASE e = "'" -> Advance(t, Push(Q, "'"))
              [] e = "\"" -> Advance(t, Push(Q, "\""))
              [] e = "x" ->
                    LET r == parse_7bit(t, Q.chars)
                    IN  IF IsSome(r.val)
                        THEN Advance(t, Push([Q EXCEPT !.chars = r.chars], Unwrap(r.val)))
                        ELSE Finish([Q EXCEPT !.chars = r.chars], "None")
              [] e = "n" -> Advance(t, Push(Q, LF))
              [] e = "r" -> Advance(t, Push(Q, CR))
              [] e = "t" -> Advance(t, Push(Q, TAB))
              [] e = BSL -> Advance(t, Push(Q, BSL))
              [] e = "0" -> Advance(t, Push(Q, NUL))
              [] e = "u" ->
                    LET r == parse_24bit(t, Q.chars)
                    IN  IF IsSome(r.val)
                        THEN Advance(t, Push([Q EXCEPT !.chars = r.chars], Unwrap(r.val)))
                        ELSE Finish([Q EXCEPT !.chars = r.chars], "None")
              [] e = LF -> whitespace_ignore(t, Q)
              [] OTHER -> Finish(Q, "None")

\* parse_param's end without the placeholder of lines 199-203
param_tail_no_output(t, P, output) == Advance(t, P)

\* parse_param lines 199-204 and the return to the main loop (line 99)
param_tail(t, P, output) ==
    Advance(t, [P EXCEPT !.buf = IF IsSome(output)
                                 THEN @ \o <<"{">> \o Unwrap(output) \o <<"}">>
                                 ELSE @])

\* parse_param's head copying an unterminated parameter from start, without the - 1
\* that includes the bracket
param_head_no_bracket(t, P, ch, i) ==
    IF ch \in {"+", "-", "#"}
    THEN [P EXCEPT !.buf = @ \o <<ESC, "[">>, !.pc = "param",
                   !.pp = [ch |-> ch, start |-> i + 1, close_found |-> FALSE,
                           after_output |-> FALSE, output |-> None]]
    ELSE
        LET fd == find_delimiter(t, P.chars, FALSE, FALSE)
        IN  IF ~IsSome(fd.found)
            THEN Advance(t, [P EXCEPT !.chars = fd.chars,
                                      !.buf = @ \o Slice(t, i, Len(t))])
            ELSE
                LET end_i    == Unwrap(fd.found)[1]
                    output == Some(Slice(t, i, end_i))
                    Q      == [P EXCEPT !.chars = fd.chars]
                IN  IF fd.close_found
                    THEN param_tail(t, Q, output)
                    ELSE [Q EXCEPT !.buf = @ \o <<ESC, "[">>, !.pc = "param",
                                   !.pp = [ch |-> Unwrap(fd.found)[2], start |-> end_i + 1,
                                           close_found |-> FALSE,
                                           after_output |-> fd.after_output,
                                           output |-> output]]

\* parse_param lines 137-157: up to the entry of the directive loop
param_head(t, P, ch, i) ==
    IF ch \in {"+", "-", "#"}
    THEN [P EXCEPT !.buf = @ \o <<ESC, "[">>, !.pc = "param",
                   !.pp = [ch |-> ch, start |-> i + 1, close_found |-> FALSE,
                           after_output |-> FALSE, output |-> None]]
    ELSE
        LET fd == find_delimiter(t, P.chars, FALSE, FALSE)
        IN  IF ~IsSome(fd.found)
            THEN Advance(t, [P EXCEPT !.chars = fd.chars,
                                      !.buf = @ \o Slice(t, i - 1, Len(t))])
            ELSE
                LET end_i    == Unwrap(fd.found)[1]
                    output == Some(Slice(t, i, end_i))
                    Q      == [P EXCEPT !.chars = fd.chars]
                IN  IF fd.close_found
                    THEN param_tail(t, Q, output)
                    ELSE [Q EXCEPT !.buf = @ \o <<ESC, "[">>, !.pc = "param",
                                   !.pp = [ch |-> Unwrap(fd.found)[2], start |-> end_i + 1,
                                           close_found |-> FALSE,
                                           after_output |-> fd.after_output,
                                           output |-> output]]

\* the after_output arm without the 'm' that closes the first escape
emit_output_unclosed(b, output) ==
    IF IsSome(output)
    THEN b \o <<"{">> \o Unwrap(output) \o <<"}", ESC, "[">>
    ELSE b

\* lines 180-186: the escape is closed, the captured value is emitted as a
\* placeholder and a new escape is opened
emit_output(b, output) ==
    IF IsSome(output)
    THEN b \o <<"m", "{">> \o Unwrap(output) \o <<"}", ESC, "[">>
    ELSE b

\* lines 172-194 of the directive loop, with lines 195-204 when the pass is the last:
\* fd is what find_delimiter returned, pos the iterator after the '&' arm's next()
param_iter(t, P, fd, pos) ==
    LET l          == P.pp
        end_i      == Unwrap(fd.found)[1]
        next_start == IF fd.after_output THEN end_i + 2 ELSE end_i + 1
        next_ch    == IF fd.after_output THEN t[pos] ELSE Unwrap(fd.found)[2]
        sgr        == IF l.start <= end_i
                      THEN parse_sgr(l.ch, Slice(t, l.start, end_i), P.buf)
                      ELSE None
    IN  IF ~IsSome(sgr) THEN Finish([P EXCEPT !.chars = pos], "panic")
        ELSE
            LET b1  == Unwrap(sgr)
                b2  == IF fd.after_output THEN emit_output(b1, l.output)
                       ELSE Append(b1, ";")
                out == IF fd.after_output THEN None ELSE l.output
            IN  IF fd.close_found
                THEN IF b2 = <<>> THEN Finish([P EXCEPT !.chars = pos], "panic")
                     ELSE param_tail(t,
                              [P EXCEPT !.chars = pos,
                                        !.buf = Append(SubSeq(b2, 1, Len(b2) - 1), "m")],
                              out)
                ELSE [P EXCEPT !.chars = pos, !.buf = b2,
                               !.pp = [ch |-> next_ch, start |-> next_start,
                                       close_found |-> FALSE,
                                       after_output |-> FALSE, output |-> out]]

\* the delimiter search leaving the loop quietly when the input has ended
param_loop_break(t, P) ==
    LET fd == find_delimiter(t, P.chars, P.pp.close_found, P.pp.after_output)
    IN  IF ~IsSome(fd.found) THEN Advance(t, [P EXCEPT !.chars = fd.chars])
        ELSE IF fd.after_output /\ fd.chars >= Len(t)
        THEN Finish([P EXCEPT !.chars = fd.chars], "panic")
        ELSE param_iter(t, P, fd, IF fd.after_output THEN fd.chars + 1 ELSE fd.chars)

\* one pass of the directive loop, lines 159-171: the next delimiter is looked for
\* ("Close bracket not found"), and after '&' one more character is read
\* ("String ended early")
param_loop(t, P) ==
    LET fd == find_delimiter(t, P.chars, P.pp.close_found, P.pp.after_output)
    IN  IF ~IsSome(fd.found) THEN Finish([P EXCEPT !.chars = fd.chars], "panic")
        ELSE IF fd.after_output /\ fd.chars >= Len(t)
        THEN Finish([P EXCEPT !.chars = fd.chars], "panic")
        ELSE param_iter(t, P, fd, IF fd.after_output THEN fd.chars + 1 ELSE fd.chars)

\* parse_param, called from the '{' arm with the character after the brace
parse_param(t, P, ch, i) == param_head(t, P, ch, i)

\* the '{' arm of the main loop
open_arm(t, P) ==
    IF P.chars >= Len(t) THEN Advance(t, Push(P, "{"))
    ELSE
        LET c == t[P.chars + 1]
            Q == [P EXCEPT !.chars = @ + 1]
        IN  CASE c = "{" -> Advance(t, [Q EXCEPT !.buf = @ \o <<"{", "{">>])
              [] c = "}" -> Advance(t, [Q EXCEPT !.buf = @ \o <<"{", "}">>])
              [] OTHER -> parse_param(t, Q, c, P.chars)

\* the '}' arm of the main loop
close_arm(t, P) ==
    IF P.chars < Len(t) /\ t[P.chars + 1] = "}"
    THEN Advance(t, [P EXCEPT !.chars = @ + 1, !.buf = @ \o <<"}", "}">>])
    ELSE Advance(t, Push([P EXCEPT !.chars = chars_after(t, @)], "}"))

\* the character is read and not copied
plain_arm_skip(t, P) == Advance(t, P)

\* any other character
plain_arm(t, P) == Advance(t, Push(P, Unwrap(P.next)[2]))

\* one step of parse_string: a pass of the main loop or of the directive loop
Step(t, P) ==
    IF P.pc = "param" THEN param_loop(t, P)
    ELSE IF ~IsSome(P.next) THEN Finish(P, "Some")
    ELSE LET ch == Unwrap(P.next)[2]
         IN  CASE ch = BSL -> backslash_arm(t, P)
               [] ch = "{" -> open_arm(t, P)
               [] ch = "}" -> close_arm(t, P)
               [] OTHER -> plain_arm(t, P)

\* parse_string run to its end
RECURSIVE Run(_, _)
Run(t, P) == IF P.pc = "done" THEN P ELSE Run(t, Step(t, P))

parse_string(t) == Run(t, parse_string_start(t))

----------------------------------------------------------------------------
(* The inputs *)

MaxTokens == 4
MaxSegments == 4
MaxCalls == 4
MaxContent == 4

RECURSIVE SeqsUpTo(_, _)
SeqsUpTo(T, n) ==
    IF n = 0 THEN {<<>>}
    ELSE LET r == SeqsUpTo(T, n - 1)
         IN  r \cup {Append(x, t) : x \in r, t \in T}

\* pieces of ordinary text, escapes and braces
Tokens ==
    {<<"{">>, <<"}">>, <<BSL>>, <<LF>>, <<" ">>, <<"a">>, <<"x">>, <<"n">>, <<"4">>, <<"+">>,
     <<":">>}

TextInputs == {Concat(ts) : ts \in SeqsUpTo(Tokens, MaxTokens)}

\* pieces of a styling parameter
Segments ==
    {K_name, <<"+">> \o K_Bold, <<"#">> \o K_RedFg, <<"+">> \o K_Reset, <<"&">>,
     <<"+">>, <<"+">> \o K_Nope}

Closings == {<<"}">>, <<>>, <<"}", "a">>}

ValueTexts == {<<>>, K_name}

ParamInputs ==
    {<<"{">> \o v \o Concat(ts) \o c :
        v \in ValueTexts, ts \in SeqsUpTo(Segments, MaxSegments), c \in Closings}

\* pieces of what stands between the brackets of a parametric colour
ContentTokens == {<<"0">>, <<"2", "5">>, <<"6">>, <<",">>, <<"f", "f">>, <<"0", ",">>}

\* '#' segments in the shape of a parametric colour: a prefix, a bracket, a content,
\* a bracket; and segments too short for that shape
ColourSegments ==
    {<<p, l>> \o Concat(c) \o <<r>> :
        p \in {"f", "b", "g"}, l \in {"(", "["}, r \in {")", "]"},
        c \in SeqsUpTo(ContentTokens, MaxContent)}
        \cup {<<>>, <<"f">>, <<"f", "(">>, <<"f", ")">>}

ColourInputs == {<<"{", "#">> \o seg \o <<"}">> : seg \in ColourSegments}

\* the Style and Color values, with sampled parameters for the RGB forms
Samples == {0, 9, 10, 99, 100, 128, 255}

StyleValues == {Style(t) : t \in StyleNames}

ColorValues ==
    {Color(t) : t \in NamedColors}
        \cup {ByteFg(n) : n \in Byte} \cup {ByteBg(n) : n \in Byte}
        \cup {RgbFg(r, g, b) : r \in Samples, g \in Samples, b \in Samples}
        \cup {RgbBg(r, g, b) : r \in Samples, g \in Samples, b \in Samples}

Values == StyleValues \cup ColorValues

NoValue == Value("", 0, 0, 0)

Hex2(n) == <<HexLower[(n \div 16) + 1], HexLower[(n % 16) + 1]>>

Keyword(name) ==
    CASE name = "Reset" -> K_Reset
      [] name \in {"Bold", "NotBold"} -> K_Bold
      [] name \in {"Dim", "NotDim"} -> K_Dim
      [] name \in {"Italic", "NotItalic"} -> K_Italic
      [] name \in {"Underline", "NotUnderline"} -> K_Underline
      [] name \in {"Blinking", "NotBlinking"} -> K_Blinking
      [] name \in {"Inverse", "NotInverse"} -> K_Inverse
      [] name \in {"Hidden", "NotHidden"} -> K_Hidden
      [] name \in {"Strikethrough", "NotStrikethrough"} -> K_Strikethrough
      [] name = "BlackFg" -> K_BlackFg
      [] name = "RedFg" -> K_RedFg
      [] name = "GreenFg" -> K_GreenFg
      [] name = "YellowFg" -> K_YellowFg
      [] name = "BlueFg" -> K_BlueFg
      [] name = "MagentaFg" -> K_MagentaFg
      [] name = "CyanFg" -> K_CyanFg
      [] name = "WhiteFg" -> K_WhiteFg
      [] name = "DefaultFg" -> K_DefaultFg
      [] name = "BlackBg" -> K_BlackBg
      [] name = "RedBg" -> K_RedBg
      [] name = "GreenBg" -> K_GreenBg
      [] name = "YellowBg" -> K_YellowBg
      [] name = "BlueBg" -> K_BlueBg
      [] name = "MagentaBg" -> K_MagentaBg
      [] name = "CyanBg" -> K_CyanBg
      [] name = "WhiteBg" -> K_WhiteBg
      [] name = "DefaultBg" -> K_DefaultBg

Notations == {"dec", "hex"}

\* the directive of the mini-language that denotes the value v
Directive(v, notation) ==
    CASE v.t \in {"Reset", "Bold", "Dim", "Italic", "Underline", "Blinking", "Inverse",
                  "Hidden", "Strikethrough"} -> <<"+">> \o Keyword(v.t)
      [] v.t \in StyleNames -> <<"-">> \o Keyword(v.t)
      [] v.t \in NamedColors -> <<"#">> \o Keyword(v.t)
      [] v.t \in {"ByteFg", "ByteBg"} ->
            <<"#", IF v.t = "ByteFg" THEN "f" ELSE "b">>
                \o (IF notation = "dec" THEN <<"(">> \o to_string(v.a) \o <<")">>
                    ELSE <<"[">> \o Hex2(v.a) \o <<"]">>)
      [] v.t \in {"RgbFg", "RgbBg"} ->
            <<"#", IF v.t = "RgbFg" THEN "f" ELSE "b">>
                \o (IF notation = "dec"
                    THEN <<"(">> \o to_string(v.a) \o <<",">> \o to_string(v.b) \o <<",">>
                            \o to_string(v.c) \o <<")">>
                    ELSE <<"[">> \o Hex2(v.a) \o Hex2(v.b) \o Hex2(v.c) \o <<"]">>)

DirectiveInput(v, notation) == <<"{">> \o Directive(v, notation) \o <<"}">>

----------------------------------------------------------------------------
(* The calls on a writer *)

Call(op, v, codes) == [op |-> op, v |-> v, codes |-> codes]

\* an SGR value displayed at run time: escape, DiscreteSGR::write, end
inline_sgr(w, v) == end(SGRBuilder_write_codes(escape(w), DiscreteSGR_write(v)))

CodeArgs == {1, 4, 255}

CodesArgs == {<<1, 4>>}

ValueArgs == {Style("Bold"), ByteFg(7), ByteBg(7), RgbFg(1, 2, 3), RgbBg(1, 2, 3)}

WriterInit ==
    /\ \/ writer = FmtWriter_new /\ calls = <<Call("FmtWriter::new", NoValue, <<>>)>>
       \/ writer = IoWriter_new(TRUE) /\ calls = <<Call("IoWriter::new(true)", NoValue, <<>>)>>
       \/ writer = IoWriter_new(FALSE) /\ calls = <<Call("IoWriter::new(false)", NoValue, <<>>)>>
    /\ s = <<>>
    /\ chars = 0
    /\ next = None
    /\ buf = <<>>
    /\ pc = "done"
    /\ result = "Some"
    /\ pp = NoLocals

Escape ==
    /\ Len(calls) <= MaxCalls
    /\ writer' = escape(writer)
    /\ calls' = Append(calls, Call("escape", NoValue, <<>>))
    /\ UNCHANGED <<s, chars, next, buf, pc, result, pp>>

End ==
    /\ Len(calls) <= MaxCalls
    /\ writer' = end(writer)
    /\ calls' = Append(calls, Call("end", NoValue, <<>>))
    /\ UNCHANGED <<s, chars, next, buf, pc, result, pp>>

WriteCode ==
    /\ Len(calls) <= MaxCalls
    /\ \E code \in CodeArgs :
          /\ writer' = write_code(writer, code)
          /\ calls' = Append(calls, Call("write_code", NoValue, <<code>>))
    /\ UNCHANGED <<s, chars, next, buf, pc, result, pp>>

WriteAll ==
    /\ Len(calls) <= MaxCalls
    /\ \E codes \in CodesArgs :
          /\ writer' = write_all(writer, codes)
          /\ calls' = Append(calls, Call("write_all", NoValue, codes))
    /\ UNCHANGED <<s, chars, next, buf, pc, result, pp>>

\* DiscreteSGR::write of a Style or Color through the builder
Write ==
    /\ Len(calls) <= MaxCalls
    /\ \E v \in ValueArgs :
          /\ writer' = SGRBuilder_write_codes(writer, DiscreteSGR_write(v))
          /\ calls' = Append(calls, Call("write", v, DiscreteSGR_write(v)))
    /\ UNCHANGED <<s, chars, next, buf, pc, result, pp>>

WriterNext == Escape \/ End \/ WriteCode \/ WriteAll \/ Write

WriterSpec == WriterInit /\ [][WriterNext]_vars

----------------------------------------------------------------------------
(* parse_string as a state machine *)

Cur == Parse(chars, next, buf, pc, result, pp)

Set(P) ==
    /\ chars' = P.chars
    /\ next' = P.next
    /\ buf' = P.buf
    /\ pc' = P.pc
    /\ result' = P.result
    /\ pp' = P.pp

Start(t) ==
    /\ s = t
    /\ chars = parse_string_start(t).chars
    /\ next = parse_string_start(t).next
    /\ buf = parse_string_start(t).buf
    /\ pc = parse_string_start(t).pc
    /\ result = parse_string_start(t).result
    /\ pp = parse_string_start(t).pp

\* parse_string is called on a text; for the text of a directive, the value the
\* directive denotes has been displayed at run time through a new FmtWriter
Init ==
    \/ /\ \E t \in TextInputs \cup ParamInputs \cup ColourInputs : Start(t)
       /\ writer = FmtWriter_new
       /\ calls = <<Call("FmtWriter::new", NoValue, <<>>)>>
    \/ \E v \in Values, notation \in Notations :
          /\ Start(DirectiveInput(v, notation))
          /\ writer = inline_sgr(FmtWriter_new, v)
          /\ calls = <<Call("FmtWriter::new", NoValue, <<>>),
                       Call("inline_sgr", v, DiscreteSGR_write(v))>>

Current == Unwrap(next)[2]

Backslash ==
    /\ pc = "main" /\ IsSome(next) /\ Current = BSL
    /\ Set(backslash_arm(s, Cur))
    /\ UNCHANGED <<writer, calls, s>>

OpenBrace ==
    /\ pc = "main" /\ IsSome(next) /\ Current = "{"
    /\ Set(open_arm(s, Cur))
    /\ UNCHANGED <<writer, calls, s>>

CloseBrace ==
    /\ pc = "main" /\ IsSome(next) /\ Current = "}"
    /\ Set(close_arm(s, Cur))
    /\ UNCHANGED <<writer, calls, s>>

Plain ==
    /\ pc = "main" /\ IsSome(next) /\ Current \notin {BSL, "{", "}"}
    /\ Set(plain_arm(s, Cur))
    /\ UNCHANGED <<writer, calls, s>>

DirectiveLoop ==
    /\ pc = "param"
    /\ Set(param_loop(s, Cur))
    /\ UNCHANGED <<writer, calls, s>>

Return ==
    /\ pc = "main" /\ ~IsSome(next)
    /\ Set(Finish(Cur, "Some"))
    /\ UNCHANGED <<writer, calls, s>>

Next == Backslash \/ OpenBrace \/ CloseBrace \/ Plain \/ DirectiveLoop \/ Return

Spec == Init /\ [][Next]_vars

----------------------------------------------------------------------------
(* Properties *)

\* the decimal numeral of a byte: the digit text without a leading zero whose value it is
Numerals ==
    UNION {[1 .. k -> 0 .. 9] : k \in 1 .. 3}

NumeralValue(d) ==
    IF Len(d) = 1 THEN d[1]
    ELSE IF Len(d) = 2 THEN 10 * d[1] + d[2]
    ELSE 100 * d[1] + 10 * d[2] + d[3]

Decimal ==
    [n \in Byte |->
        LET d == CHOOSE d \in Numerals : NumeralValue(d) = n /\ (Len(d) > 1 => d[1] # 0)
        IN  [k \in 1 .. Len(d) |-> DigitChars[d[k] + 1]]]

RECURSIVE JoinCodes(_)
JoinCodes(codes) ==
    IF codes = <<>> THEN <<>>
    ELSE IF Len(codes) = 1 THEN Decimal[codes[1]]
    ELSE Decimal[codes[1]] \o <<";">> \o JoinCodes(Tail(codes))

EscapeOf(codes) == <<ESC, "[">> \o JoinCodes(codes) \o <<"m">>

Parametric == {"ByteFg", "ByteBg", "RgbFg", "RgbBg"}

\* the codes of an indexed or RGB colour: 38 or 48, then 5 and the index, or 2 and r, g, b
ParametricCodes(v) ==
    <<IF v.t \in {"ByteFg", "RgbFg"} THEN 38 ELSE 48>>
        \o (IF v.t \in {"ByteFg", "ByteBg"} THEN <<5, v.a>> ELSE <<2, v.a, v.b, v.c>>)

\* the text of the calls so far when ';' precedes a code exactly when a code was
\* written since the last escape(): n counts the codes since then
RECURSIVE Rendered(_, _, _)
Rendered(cs, out, n) ==
    IF cs = <<>> THEN out
    ELSE LET c == Head(cs)
         IN  CASE c.op = "escape" -> Rendered(Tail(cs), out \o <<ESC, "[">>, 0)
               [] c.op = "end" -> Rendered(Tail(cs), Append(out, "m"), n)
               [] c.codes = <<>> -> Rendered(Tail(cs), out, n)
               [] OTHER ->
                    Rendered(<<[c EXCEPT !.codes = Tail(@)]>> \o Tail(cs),
                             out \o (IF n > 0 THEN <<";">> ELSE <<>>)
                                 \o Decimal[Head(c.codes)],
                             n + 1)

\* the parse has ended on the directive that denotes the value displayed at run time
DirectiveParsed(notation) ==
    /\ pc = "done"
    /\ Len(calls) = 2
    /\ s = DirectiveInput(calls[2].v, notation)

\* C1: for every Style and Color value, the text the static parser writes for the
\* value's directive (decimal notation for the parametric colours) is the text the
\* runtime path writes for the value
C1_StaticEqualsRuntime ==
    DirectiveParsed("dec") => (result = "Some" /\ buf = writer.out)

\* C2: on every writer and after every sequence of calls, the sink holds the calls'
\* text with a ';' before a code if and only if a code has been written since the
\* most recent escape()
C2_SeparatorIffCodeWritten == writer.out = Rendered(calls, <<>>, 0)

\* a new writer with first_write set, then escape(), k >= 1 write_code(), end()
BuilderSequence ==
    /\ Len(calls) >= 4
    /\ calls[1].op \in {"FmtWriter::new", "IoWriter::new(true)"}
    /\ calls[2].op = "escape"
    /\ calls[Len(calls)].op = "end"
    /\ \A k \in 3 .. Len(calls) - 1 : calls[k].op = "write_code"

\* C3: on a new writer (first_write set), escape(); write_code(c1); ...;
\* write_code(ck); end() with k >= 1 writes exactly ESC [ c1 ; ... ; ck m, the codes
\* in call order and in decimal
C3_BuilderSequenceText ==
    BuilderSequence =>
        writer.out = EscapeOf([k \in 1 .. Len(calls) - 3 |-> calls[k + 2].codes[1]])

C3_Witness ==
    /\ BuilderSequence
    /\ Len(calls) = 5
    /\ writer.kind = "io"
    /\ writer.out = <<ESC, "[", "1", ";", "4", "m">>

\* C4: at run time an indexed colour writes 38 or 48, then 5, then the index, and an
\* RGB colour writes 38 or 48, then 2, then r, g, b
C4_RuntimeParametricCodes ==
    (/\ Len(calls) = 3
     /\ calls[1].op \in {"FmtWriter::new", "IoWriter::new(true)"}
     /\ calls[2].op = "escape"
     /\ calls[3].op = "write"
     /\ calls[3].v.t \in Parametric)
        => writer.out = <<ESC, "[">> \o JoinCodes(ParametricCodes(calls[3].v))

\* C5: the static parser writes, for a parametric colour literal, 38 or 48, then 5 and
\* the value, or 2 and the three values, each in decimal, in the decimal and in the
\* hexadecimal notation alike
C5_StaticParametricText ==
    \A notation \in Notations :
        (DirectiveParsed(notation) /\ calls[2].v.t \in Parametric)
            => (result = "Some" /\ buf = EscapeOf(ParametricCodes(calls[2].v)))

C5_Witness ==
    /\ DirectiveParsed("hex")
    /\ s = <<"{", "#", "f", "[", "0", "0", "8", "0", "0", "0", "]", "}">>
    /\ buf = <<ESC, "[", "3", "8", ";", "2", ";", "0", ";", "1", "2", "8", ";", "0", "m">>

----------------------------------------------------------------------------
(* Properties of parameters *)

DirectiveMarks == {"+", "-", "#", "&"}

Special == {"{", "}", BSL}

\* the input is one parameter "{" ... "}" whose interior has no brace and no backslash
OneParameter ==
    /\ Len(s) >= 3
    /\ s[1] = "{"
    /\ s[Len(s)] = "}"
    /\ \A k \in 2 .. Len(s) - 1 : s[k] \notin Special

\* an ordinary format parameter: an argument without a directive character, then
\* possibly ':' and a format specification
FormatParameter ==
    /\ OneParameter
    /\ \A k \in 2 .. Len(s) - 1 : s[k] # LF
    /\ \A k \in 2 .. Len(s) - 1 :
          s[k] \in DirectiveMarks => \E j \in 2 .. k - 1 : s[j] = ":"

\* C6: a parameter that carries no styling directive, a format specification such as
\* {:+} or {:#?} included, appears in the output as it is in the input, and the parse
\* does not fail
C6_FormatParameterUntouched ==
    (pc = "done" /\ FormatParameter) => (result = "Some" /\ buf = s)

\* directives that resolve, with their codes
ValidDirectives ==
    {[text |-> <<"+">> \o K_Bold, code |-> 1], [text |-> <<"#">> \o K_RedFg, code |-> 31],
     [text |-> <<"+">> \o K_Reset, code |-> 0]}

DirectiveLists == SeqsUpTo(ValidDirectives, 2)

TextOf(ds) == Concat([k \in DOMAIN ds |-> ds[k].text])

CodesOf(ds) == [k \in DOMAIN ds |-> ds[k].code]

Placeholder(value) == <<"{">> \o value \o <<"}">>

HasPrefix(t, pre) == Len(t) >= Len(pre) /\ SubSeq(t, 1, Len(pre)) = pre

\* C7 as stated: directives, then '&', then the value text, e.g. {+Bold#RedFg&name},
\* gives a closed escape with the directives' codes, then {name}, then a second escape
\* opened and closed on its own
C7_ValueAfterAmpersand ==
    \A ds \in DirectiveLists \ {<<>>} :
        (pc = "done" /\ s = <<"{">> \o TextOf(ds) \o <<"&">> \o K_name \o <<"}">>)
            => /\ result = "Some"
               /\ HasPrefix(buf, EscapeOf(CodesOf(ds)) \o Placeholder(K_name) \o <<ESC, "[">>)
               /\ buf[Len(buf)] = "m"

\* C7 amended: the value text, then directives, then '&', then directives, e.g.
\* {name+Bold#RedFg&+Reset}, gives a closed escape with the codes of the directives
\* before '&', then {name}, then a second closed escape with the codes of those after
C7_ValueBeforeDirectives ==
    (pc = "done" /\ HasPrefix(s, <<"{">> \o K_name))
        => \A d1 \in DirectiveLists \ {<<>>}, d2 \in DirectiveLists \ {<<>>} :
              s = <<"{">> \o K_name \o TextOf(d1) \o <<"&">> \o TextOf(d2) \o <<"}">>
                  => /\ result = "Some"
                     /\ buf = EscapeOf(CodesOf(d1)) \o Placeholder(K_name)
                                \o EscapeOf(CodesOf(d2))

C7_Witness ==
    /\ pc = "done"
    /\ s = <<"{">> \o K_name \o <<"+">> \o K_Bold \o <<"#">> \o K_RedFg \o <<"&", "+">>
              \o K_Reset \o <<"}">>
    /\ buf = <<ESC, "[", "1", ";", "3", "1", "m">> \o Placeholder(K_name)
                \o <<ESC, "[", "0", "m">>

\* C8: a parameter that captures a value and contains '&' gives, when the parse
\* succeeds, exactly one escape with the codes of the directives before '&', then
\* '{' value '}', then one escape with the codes of the directives after '&', wherever
\* the '&' stands
C8_TwoEscapesAroundValue ==
    (pc = "done" /\ result = "Some" /\ HasPrefix(s, <<"{">> \o K_name))
        => \A d1 \in DirectiveLists, d2 \in DirectiveLists :
              s = <<"{">> \o K_name \o TextOf(d1) \o <<"&">> \o TextOf(d2) \o <<"}">>
                  => buf = EscapeOf(CodesOf(d1)) \o Placeholder(K_name)
                              \o EscapeOf(CodesOf(d2))

\* the input reaches a '{' through plain text, a directive begins after the brace and
\* no '}' follows
UnterminatedStyling ==
    \E k \in 1 .. Len(s) - 1 :
        /\ s[k] = "{"
        /\ \A j \in 1 .. k - 1 : s[j] \notin Special
        /\ s[k + 1] # "{"
        /\ \A j \in k + 1 .. Len(s) : s[j] # "}"
        /\ \/ s[k + 1] \in {"+", "-", "#"}
           \/ \E j \in k + 2 .. Len(s) : s[j] \in DirectiveMarks

\* C9 as stated: an input that ends inside a styling parameter whose directive has
\* begun is returned with the unterminated parameter kept as literal text
C9_UnterminatedPreserved ==
    (pc = "done" /\ UnterminatedStyling) => (result = "Some" /\ buf = s)

\* C9 amended: an input that ends inside a styling parameter whose directive has begun
\* makes parse_string panic; no text is returned
C9_UnterminatedPanics ==
    (pc = "done" /\ UnterminatedStyling) => result = "panic"

C9_Witness ==
    /\ pc = "done"
    /\ s = <<"{", "+">> \o K_Bold
    /\ result = "panic"

\* the text between the directive character at k and the next one (or the '}')
SegmentAt(k) ==
    LET later == {j \in k + 1 .. Len(s) - 1 : s[j] \in DirectiveMarks}
        stop  == IF later = {} THEN Len(s)
                 ELSE CHOOSE j \in later : \A i \in later : j <= i
    IN  SubSeq(s, k + 1, stop - 1)

\* the segment at k resolves through the table its character selects; '&' selects none
Resolves(k) ==
    CASE s[k] = "+" -> IsSome(parse_add_style(SegmentAt(k)))
      [] s[k] = "-" -> IsSome(parse_sub_style(SegmentAt(k)))
      [] s[k] = "#" -> IsSome(parse_color(SegmentAt(k), <<>>))
      [] OTHER -> SegmentAt(k) = <<>>

\* one parameter in which a directive begins: '+', '-' or '#' after the brace, or a
\* directive character after the value text
StyledParameter ==
    /\ OneParameter
    /\ \/ s[2] \in {"+", "-", "#"}
       \/ \E j \in 3 .. Len(s) - 1 : s[j] \in DirectiveMarks

\* C10: in a styling parameter every segment resolves through the code table of its
\* delimiter, or the parse fails: the empty segment and the segment after '&' included
C10_SegmentsResolveOrFail ==
    (pc = "done" /\ StyledParameter /\ s[2] # "&" /\ result = "Some")
        => \A k \in 2 .. Len(s) - 1 : s[k] \in DirectiveMarks => Resolves(k)

----------------------------------------------------------------------------
(* Properties of the output and of the main loop *)

CodeChars == {DigitChars[d] : d \in 1 .. 10} \cup {";"}

\* the escape that begins at b[k] is ESC '[' code (';' code)* 'm': j is the first
\* position after the '[' that holds neither a digit nor a ';'
WellFormedEscapeAt(b, k) ==
    /\ k + 3 <= Len(b)
    /\ b[k + 1] = "["
    /\ \E j \in k + 3 .. Len(b) :
          /\ b[j] = "m"
          /\ \A i \in k + 2 .. j - 1 : b[i] \in CodeChars
          /\ b[k + 2] # ";"
          /\ b[j - 1] # ";"
          /\ \A i \in k + 2 .. j - 2 : ~(b[i] = ";" /\ b[i + 1] = ";")

\* C11: in every string parse_string returns for one styling parameter with a value,
\* every escape is ESC '[' code (';' code)* 'm' with at least one code, no empty code and no
\* leading or trailing ';'
C11_EscapesWellFormed ==
    (pc = "done" /\ result = "Some" /\ StyledParameter /\ HasPrefix(s, <<"{">> \o K_name))
        => \A k \in 1 .. Len(buf) : buf[k] = ESC => WellFormedEscapeAt(buf, k)

\* the input holds no '{', no '}' and no backslash
PlainText == \A k \in 1 .. Len(s) : s[k] \notin Special

\* C12: for every input text without '{', '}' and backslash, parse_string succeeds
\* and returns the input text unchanged
C12_PlainTextUnchanged ==
    (pc = "done" /\ PlainText) => (result = "Some" /\ buf = s)

C12_Witness ==
    /\ pc = "done"
    /\ s = <<"a", " ", "+", ":">>
    /\ result = "Some"
    /\ buf = <<"a", " ", "+", ":">>

\* what may stand before a doubled brace: nothing, plain text, a stray '}' or a
\* completed parameter
Preceding == {<<>>, <<"a">>, <<"}">>, <<"{", "}">>, <<"a", "}">>}

DoubledBraces == {<<"{", "{">>, <<"}", "}">>}

\* C13: a {{ or }} in the input is written to the output as the same two characters,
\* whatever precedes it (a stray '}' or a completed parameter included) and whatever
\* plain text follows it
C13_DoubledBracesLiteral ==
    \A pre \in Preceding, d \in DoubledBraces, post \in {<<>>, <<"a">>} :
        (pc = "done" /\ s = pre \o d \o post /\ ~(pre # <<>> /\ pre[Len(pre)] = d[1]))
            => (result = "Some" /\ buf = s)

\* C14: a '}' that is not followed by another '}' is copied to the output and the
\* character after it is still processed: when plain text follows the '}', the whole
\* input is the output
C14_StrayCloseKeepsNext ==
    (/\ pc = "done"
     /\ Len(s) >= 2
     /\ s[1] = "}"
     /\ \A k \in 2 .. Len(s) : s[k] \notin Special)
        => (result = "Some" /\ buf = s)

\* the maximal runs of digits of a text, in order
RECURSIVE DigitRuns(_, _)
DigitRuns(b, run) ==
    IF b = <<>> THEN (IF run = <<>> THEN <<>> ELSE <<run>>)
    ELSE IF \E d \in 1 .. 10 : DigitChars[d] = Head(b)
         THEN DigitRuns(Tail(b), Append(run, Head(b)))
         ELSE (IF run = <<>> THEN <<>> ELSE <<run>>) \o DigitRuns(Tail(b), <<>>)

\* C15: within one styling parameter the codes of successive directives are written
\* in source order and no two of them adjacent: the runs of digits of the output are
\* the codes of the directives, one run per code, also across an '&'
C15_CodesSeparated ==
    (pc = "done" /\ result = "Some" /\ OneParameter)
        => \A v \in ValueTexts, d1 \in DirectiveLists \ {<<>>}, d2 \in DirectiveLists \ {<<>>} :
              s = <<"{">> \o v \o TextOf(d1) \o <<"&">> \o TextOf(d2) \o <<"}">>
                  => DigitRuns(buf, <<>>)
                        = [k \in 1 .. Len(d1) + Len(d2) |-> Decimal[CodesOf(d1 \o d2)[k]]]

\* the character with code 0xHH, for the two hexadecimal digits h1 h2
HexChar(h1, h2) == Unwrap(char_from_u32(16 * DigitVal(h1) + DigitVal(h2)))

\* C16: for two hexadecimal digits HH that denote a 7-bit character, the input \xHH
\* is decoded into the single character with code 0xHH
C16_HexEscapeDecoded ==
    (/\ pc = "done"
     /\ Len(s) = 4
     /\ s[1] = BSL
     /\ s[2] = "x"
     /\ IsDigit(s[3], 8)
     /\ IsDigit(s[4], 16))
        => (result = "Some" /\ buf = <<HexChar(s[3], s[4])>>)

\* the input with the backslash at k, the line feed after it and the whitespace that
\* follows taken out
WithoutContinuation(k) ==
    LET rest == {j \in k + 2 .. Len(s) : s[j] \notin Whitespace}
        j    == IF rest = {} THEN Len(s) + 1 ELSE CHOOSE j \in rest : \A i \in rest : j <= i
    IN  SubSeq(s, 1, k - 1) \o SubSeq(s, j, Len(s))

\* C17: after a backslash followed by a line feed the following whitespace is skipped
\* and the first character that is not whitespace is processed by the main loop as if
\* it had been read normally: the parse ends as the parse of the input without the
\* continuation ends, successfully when the input ends during the skip
C17_ContinuationSkipsWhitespace ==
    \A k \in 1 .. Len(s) - 1 :
        (/\ pc = "done"
         /\ s[k] = BSL
         /\ s[k + 1] = LF
         /\ \A j \in 1 .. k - 1 : s[j] \notin Special)
            => /\ result = parse_string(WithoutContinuation(k)).result
               /\ buf = parse_string(WithoutContinuation(k)).buf
               /\ WithoutContinuation(k) = SubSeq(s, 1, k - 1) => result = "Some"

C17_Witness ==
    /\ pc = "done"
    /\ s = <<BSL, LF, " ", "{">>
    /\ result = "Some"
    /\ buf = <<"{">>

\* a '{' at k, reached through plain text, opens a parameter whose interior runs to
\* the end of the input without '+', '-', '#', '&' and '}'
BareUnterminated(k) ==
    /\ s[k] = "{"
    /\ \A j \in 1 .. k - 1 : s[j] \notin Special
    /\ k < Len(s) => s[k + 1] # "{"
    /\ \A j \in k + 1 .. Len(s) : s[j] \notin Delimiters

\* C18: when a '{' opens a parameter whose interior reaches the end of the input
\* without '+', '-', '#', '&' and '}', parse_string succeeds and the output is the
\* output so far followed by the input from that '{' to the end, verbatim; a '{' that
\* is the last character is output as '{'
C18_BareUnterminatedVerbatim ==
    \A k \in 1 .. Len(s) :
        (pc = "done" /\ BareUnterminated(k)) => (result = "Some" /\ buf = s)

C18_Witness ==
    /\ pc = "done"
    /\ s = <<"a", "{", "x", ":">>
    /\ result = "Some"
    /\ buf = <<"a", "{", "x", ":">>

----------------------------------------------------------------------------
(* Properties of the parametric colours *)

RECURSIVE StripZeros(_)
StripZeros(t) == IF t # <<>> /\ Head(t) = "0" THEN StripZeros(Tail(t)) ELSE t

\* a decimal numeral of a value in 0 .. 255
IsDecimalByte(t) ==
    /\ t # <<>>
    /\ \A k \in 1 .. Len(t) : \E d \in 1 .. 10 : DigitChars[d] = t[k]
    /\ StripZeros(t) = <<>> \/ \E n \in Byte : Decimal[n] = StripZeros(t)

HexDigitChars == {HexLower[d] : d \in 1 .. 16} \cup {HexUpper[d] : d \in 1 .. 16}

IsHexPairs(t, n) == Len(t) = 2 * n /\ \A k \in 1 .. Len(t) : t[k] \in HexDigitChars

\* f or b followed by (n), (r,g,b), [xx] or [xxxxxx]
AcceptedColour(seg) ==
    /\ Len(seg) >= 3
    /\ seg[1] \in {"f", "b"}
    /\ LET in == SubSeq(seg, 3, Len(seg) - 1)
       IN  \/ /\ seg[2] = "(" /\ seg[Len(seg)] = ")"
              /\ \/ IsDecimalByte(in)
                 \/ \E i \in 1 .. Len(in), j \in 1 .. Len(in) :
                       /\ i < j
                       /\ in[i] = "," /\ in[j] = ","
                       /\ IsDecimalByte(SubSeq(in, 1, i - 1))
                       /\ IsDecimalByte(SubSeq(in, i + 1, j - 1))
                       /\ IsDecimalByte(SubSeq(in, j + 1, Len(in)))
           \/ /\ seg[2] = "[" /\ seg[Len(seg)] = "]"
              /\ IsHexPairs(in, 1) \/ IsHexPairs(in, 3)

\* the input is one parameter made of a single '#' segment that is not a colour name
ColourParameter ==
    /\ OneParameter
    /\ s[2] = "#"
    /\ \A k \in 3 .. Len(s) - 1 : s[k] \notin Delimiters
    /\ \A c \in NamedColors : SubSeq(s, 3, Len(s) - 1) # Keyword(c)

\* C19: a '#' segment that is not a colour name is accepted exactly when it is f or b
\* followed by (n) or (r,g,b) with decimal values 0 .. 255, or by [xx] or [xxxxxx]
\* with hexadecimal digit pairs; every other form makes the parse fail
C19_ParametricColourForms ==
    (pc = "done" /\ ColourParameter)
        => result = (IF AcceptedColour(SubSeq(s, 3, Len(s) - 1)) THEN "Some" ELSE "panic")

C19_Witness ==
    /\ pc = "done"
    /\ s = <<"{", "#", "f", "(", "2", "5", "]", "}">>
    /\ result = "panic"

----------------------------------------------------------------------------
(* Properties of a value followed by directives *)

\* the number of places at which the text pat occurs in t
Occurrences(t, pat) ==
    Cardinality({k \in 1 .. Len(t) - Len(pat) + 1 : SubSeq(t, k, k + Len(pat) - 1) = pat})

\* C20: a parameter that captures a value followed by one or more directives and holds
\* no '&', e.g. {name+Bold#RedFg}, gives one closed escape with the directives' codes
\* followed by the placeholder '{' value '}', the value text written exactly once
C20_ValueThenDirectives ==
    (pc = "done" /\ HasPrefix(s, <<"{">> \o K_name))
        => \A ds \in SeqsUpTo(ValidDirectives, 3) \ {<<>>} :
              s = <<"{">> \o K_name \o TextOf(ds) \o <<"}">>
                  => /\ result = "Some"
                     /\ buf = EscapeOf(CodesOf(ds)) \o Placeholder(K_name)
                     /\ Occurrences(buf, K_name) = 1

C20_Witness ==
    /\ pc = "done"
    /\ s = <<"{">> \o K_name \o <<"+">> \o K_Bold \o <<"#">> \o K_RedFg \o <<"}">>
    /\ result = "Some"
    /\ buf = <<ESC, "[", "1", ";", "3", "1", "m">> \o Placeholder(K_name)

----------------------------------------------------------------------------
(* Properties of the digits and of termination *)

LastRun(b) == DigitRuns(b, <<>>)[Len(DigitRuns(b, <<>>))]

\* C21: for every byte n the static path's digit renderer appends the canonical
\* decimal numeral of n, 1 to 3 digits without a leading zero, which is what the
\* runtime writer renders for the same code: checked on the index of an indexed
\* colour, the last code of the escape on both paths
C21_AppendToCanonicalDecimal ==
    \A notation \in Notations :
        (DirectiveParsed(notation) /\ calls[2].v.t \in {"ByteFg", "ByteBg"})
            => /\ result = "Some"
               /\ LastRun(buf) = Decimal[calls[2].v.a]
               /\ LastRun(buf) = LastRun(writer.out)
               /\ append_to(calls[2].v.a, <<>>) = to_string(calls[2].v.a)

C21_Witness ==
    /\ DirectiveParsed("dec")
    /\ calls[2].v = ByteFg(105)
    /\ buf = <<ESC, "[", "3", "8", ";", "5", ";", "1", "0", "5", "m">>

\* the input position of the run: the index of the main loop's current item, or
\* the number of characters the iterator has consumed (inside parse_param's loop,
\* and once the iterator is exhausted)
Cursor == IF pc = "main" /\ IsSome(next) THEN Unwrap(next)[1] ELSE chars

\* a pass of the main loop or of the directive loop: the iterator does not move
\* backwards, the pass ends the run or leaves the run further in the input, and the
\* run ends as a returned string, an absent result or a panic
Forward ==
    /\ pc \in {"main", "param"}
    /\ result = "running"
    /\ chars' >= chars
    /\ chars' <= Len(s)
    /\ s' = s
    /\ \/ pc' = "done" /\ result' \in {"Some", "None", "panic"}
       \/ pc' \in {"main", "param"} /\ result' = "running" /\ Cursor' > Cursor

\* C22: parse_string terminates on every input in a single forward pass: every pass
\* of the main loop and of the directive loop consumes input, the cursor never moves
\* backwards, and the run ends in exactly one of a returned string, an absent result
\* and a panic
C22_TerminatesForward == [][Forward]_vars

C22_Witness ==
    /\ pc = "done"
    /\ result = "Some"
    /\ chars = Len(s)
    /\ s = <<"{">> \o K_name \o <<"+">> \o K_Bold \o <<"&", "+">> \o K_Reset \o <<"}", "a">>

====
